---------------------------- MODULE Spec2Model ----------------------------
(***************************************************************************)
(* Spectral Hashing (sh.py: train, generate_code; run.py: run).            *)
(*                                                                         *)
(* Numbers.  The program works on floating-point reals.  The model works   *)
(* on an integer grid with exact arithmetic:                               *)
(*   - projected coordinates, mn and R are integers (R > 0);               *)
(*   - an angular frequency mode * pi / R[j] is never formed: where the    *)
(*     code compares eigenvalues, the model compares the same sums         *)
(*     multiplied by the common positive factor (Prod(R) / pi)^2, and      *)
(*     where the code takes the sign of sin(x * omega + pi/2), the model   *)
(*     decides the sign of cos(pi * mode * x / R) exactly from             *)
(*     (2 * mode * x) mod (4 * R).                                         *)
(* sklearn's PCA is outside the repository.  The model takes the inputs as *)
(* already expressed in their principal axes: fitting centres on the       *)
(* training mean and keeps the leading n_components coordinates.           *)
(***************************************************************************)
EXTENDS Integers, Sequences, FiniteSets

VARIABLES
    train_data,      \* run.py:25   N x D matrix (sequence of rows)
    query_data,      \* run.py:25
    retrieval_data,  \* run.py:25
    code_lengths,    \* run.py:76   args.code_length
    idx,             \* run.py:28   position of the loop in code_lengths
    saved,           \* run.py:40   checkpoints written by torch.save, in order
    pc,              \* control point
    code_length,     \* sh.py:14
    pca,             \* sh.py:35    fitted projector
    X,               \* sh.py:36
    mn,              \* sh.py:40
    R,               \* sh.py:44
    max_mode,        \* sh.py:45
    n_modes,         \* sh.py:46
    modes,           \* sh.py:47, 58
    m,               \* sh.py:48
    i,               \* sh.py:49    (1-based here)
    eig_val,         \* sh.py:56    scaled by (Prod(R)/pi)^2
    ii,              \* sh.py:57    the entries sh.py:58 reads, ii[0 .. code_length]
    query_code,      \* sh.py:62
    retrieval_code,  \* sh.py:63
    checkpoint       \* sh.py:87

vars == <<train_data, query_data, retrieval_data, code_lengths, idx, saved, pc,
          code_length, pca, X, mn, R, max_mode, n_modes, modes, m, i, eig_val,
          ii, query_code, retrieval_code, checkpoint>>

dataVars == <<train_data, query_data, retrieval_data, code_lengths>>

locals == <<code_length, pca, X, mn, R, max_mode, n_modes, modes, m, i,
            eig_val, ii, query_code, retrieval_code, checkpoint>>

-----------------------------------------------------------------------------
(* Bounds of the model *)

\* largest requested code length
MaxL == 3

\* number of features D of every data row
NumFeatures == 2

\* largest half-width of the training data along one feature
MaxSpread == 2

\* largest mode index of a directly drawn mode table (SpecEncode)
MaxModeIdx == 2

\* largest range of directly drawn bounds (SpecEncode)
MaxR == 3

\* sh.py:39  eps = np.finfo(float).eps, modelled as one grid unit
eps == 1

None == <<>>

-----------------------------------------------------------------------------
(* Arithmetic helpers *)

RECURSIVE SumSeq(_)
SumSeq(s) == IF s = <<>> THEN 0 ELSE s[1] + SumSeq(Tail(s))

RECURSIVE ProdSeq(_)
ProdSeq(s) == IF s = <<>> THEN 1 ELSE s[1] * ProdSeq(Tail(s))

RECURSIVE MaxSeq(_)
MaxSeq(s) == IF Len(s) = 1 THEN s[1]
             ELSE LET t == MaxSeq(Tail(s)) IN IF s[1] >= t THEN s[1] ELSE t

RECURSIVE MinSeq(_)
MinSeq(s) == IF Len(s) = 1 THEN s[1]
             ELSE LET t == MinSeq(Tail(s)) IN IF s[1] <= t THEN s[1] ELSE t

\* np.ceil(a / b) for a >= 0, b > 0
Ceil(a, b) == (a + b - 1) \div b

\* column j of a matrix
Column(M, j) == [r \in 1..Len(M) |-> M[r][j]]

-----------------------------------------------------------------------------
(* PCA (sklearn), sh.py:35-36 and sh.py:113 *)

\* PCA(n_components).fit raises ValueError unless
\* n_components <= min(n_samples, n_features)
PCARejects(data, n_components) ==
    \/ n_components > Len(data)
    \/ n_components > Len(data[1])

\* the fitted state: the training mean and the number of kept directions
PCAFit(data, n_components) ==
    [mean |-> [j \in 1..Len(data[1]) |-> SumSeq(Column(data, j)) \div Len(data)],
     n_components |-> n_components]

\* pca.transform(data)
PCATransform(p, data) ==
    [r \in 1..Len(data) |-> [j \in 1..p.n_components |-> data[r][j] - p.mean[j]]]

-----------------------------------------------------------------------------
(* generate_code, sh.py:100-123 *)

\* faulty variant of SignSin: the phase pi / 2 is left out (sign of sin(pi * mode * x / r))
SignSin_NoPhase(mode, x, r) ==
    LET u == (mode * x) % (2 * r)
    IN  IF u = 0 \/ u = r THEN 0 ELSE IF u < r THEN 1 ELSE 0 - 1

\* np.sign(np.sin(x * (mode * pi / r) + pi / 2)) = sign of cos(pi * mode * x / r)
SignSin(mode, x, r) ==
    LET u == (2 * mode * x) % (4 * r)
    IN  IF u < r \/ u > 3 * r THEN 1
        ELSE IF u = r \/ u = 3 * r THEN 0
        ELSE 0 - 1

\* faulty variant of Shifted: the shift is the minimum of the batch being encoded
Shifted_BatchMin(data, p, mn_) ==
    LET T == PCATransform(p, data)
    IN  [r \in 1..Len(T) |->
           [j \in 1..Len(T[r]) |-> T[r][j] - MinSeq([q \in 1..Len(T) |-> T[q][j]])]]

\* sh.py:113  data = pca.transform(data) - mn
Shifted(data, p, mn_) ==
    LET T == PCATransform(p, data)
    IN  [r \in 1..Len(T) |-> [j \in 1..Len(T[r]) |-> T[r][j] - mn_[j]]]

\* faulty variant of generate_code: the factors are summed, not multiplied
generate_code_Sum(data, code_length_, p, mn_, R_, modes_) ==
    LET S == Shifted(data, p, mn_)
    IN  [r \in 1..Len(S) |->
           [k \in 1..code_length_ |->
              SumSeq([j \in 1..Len(S[r]) |-> SignSin(modes_[k][j], S[r][j], R_[j])])]]

\* sh.py:117-123  U[:, k] = prod(sin(data * omegas[k, :] + pi/2), 1); sign(U).
\* The sign of the product is the product of the signs of its factors.
generate_code(data, code_length_, p, mn_, R_, modes_) ==
    LET S == Shifted(data, p, mn_)
    IN  [r \in 1..Len(S) |->
           [k \in 1..code_length_ |->
              ProdSeq([j \in 1..Len(S[r]) |-> SignSin(modes_[k][j], S[r][j], R_[j])])]]

-----------------------------------------------------------------------------
(* Mode table construction, sh.py:44-58 *)

\* sh.py:40-41, 44  mn = X.min(0) - eps; mx = X.max(0) + eps; R = mx - mn
BoundsMn(X_) == [j \in 1..Len(X_[1]) |-> MinSeq(Column(X_, j)) - eps]
BoundsR(X_) ==
    [j \in 1..Len(X_[1]) |-> (MaxSeq(Column(X_, j)) + eps) - BoundsMn(X_)[j]]

\* faulty variant of MaxModeOf: code_length in place of code_length + 1
MaxModeOf_NoPlusOne(L, R_) == [j \in 1..Len(R_) |-> Ceil(L * R_[j], MaxSeq(R_))]

\* sh.py:45  np.ceil((code_length + 1) * R / R.max()).astype(np.int)
MaxModeOf(L, R_) == [j \in 1..Len(R_) |-> Ceil((L + 1) * R_[j], MaxSeq(R_))]

\* sh.py:46  max_mode.sum() - len(max_mode) + 1
NModesOf(mm) == SumSeq(mm) - Len(mm) + 1

\* sh.py:47  np.ones([n_modes, code_length])
Ones(n, L) == [p \in 1..n |-> [j \in 1..L |-> 1]]

\* sh.py:50  modes[m + 1: m + max_mode[i], i] = np.arange(1, max_mode[i]) + 1
\* Row p of the model is row p - 1 of the array; the slice holds the array
\* rows m + 1 .. m + max_mode[i] - 1 and receives 2, 3, .., max_mode[i].
FillColumn(modes_, m_, i_, mm) ==
    [p \in 1..Len(modes_) |->
       [j \in 1..Len(modes_[p]) |->
          IF j = i_ /\ p - 1 >= m_ + 1 /\ p - 1 < m_ + mm[i_]
          THEN (p - 1) - m_ + 1
          ELSE modes_[p][j]]]

\* faulty variant of NextOffset: the offset advances by max_mode[i]
NextOffset_NoMinusOne(m_, i_, mm) == m_ + mm[i_]

\* sh.py:51  m = m + max_mode[i] - 1
NextOffset(m_, i_, mm) == m_ + mm[i_] - 1

\* sh.py:53  modes -= 1
MinusOne(modes_) ==
    [p \in 1..Len(modes_) |-> [j \in 1..Len(modes_[p]) |-> modes_[p][j] - 1]]

\* sum_j (row[j] * pi / R[j])^2, multiplied by (Prod(R) / pi)^2
Magnitude(row, R_) ==
    LET P == ProdSeq(R_)
    IN  SumSeq([j \in 1..Len(row) |-> (row[j] * (P \div R_[j])) * (row[j] * (P \div R_[j]))])

\* faulty variant of EigVal: the mode indices are not scaled by pi / R
EigVal_NoRange(modes_, R_) ==
    [p \in 1..Len(modes_) |->
       0 - SumSeq([j \in 1..Len(modes_[p]) |-> modes_[p][j] * modes_[p][j]])]

\* sh.py:54-56  eig_val = -(omegas ** 2).sum(1)
EigVal(modes_, R_) == [p \in 1..Len(modes_) |-> 0 - Magnitude(modes_[p], R_)]

\* faulty variant of ArgSorts: the order is descending in key
RECURSIVE ArgSorts_Descending(_, _)
ArgSorts_Descending(key, S) ==
    IF S = {} THEN {<<>>}
    ELSE UNION { { <<p>> \o t : t \in ArgSorts_Descending(key, S \ {p}) } :
                 p \in {q \in S : \A q2 \in S : key[q] >= key[q2]} }

\* sh.py:57  (-eig_val).argsort(): every order of the indices in S that is
\* ascending in key; numpy's default sort is not stable, so equal keys may come
\* out in any order.
RECURSIVE ArgSorts(_, _)
ArgSorts(key, S) ==
    IF S = {} THEN {<<>>}
    ELSE UNION { { <<p>> \o t : t \in ArgSorts(key, S \ {p}) } :
                 p \in {q \in S : \A q2 \in S : key[q] <= key[q2]} }

\* the first n entries of s, or all of s if it is shorter
Head_(s, n) == SubSeq(s, 1, IF n <= Len(s) THEN n ELSE Len(s))

\* sh.py:58  modes[ii[1: code_length + 1], :]  (a slice past the end is cut short)
SelectRows(modes_, ii_, L) ==
    LET hi == IF L + 1 <= Len(ii_) THEN L + 1 ELSE Len(ii_)
    IN  [k \in 1..(hi - 1) |-> modes_[ii_[k + 1]]]

-----------------------------------------------------------------------------
(* Input families *)

\* Training rows c +/- s[j] along each feature j: 2 * D rows whose mean is c
\* in every feature and whose principal axes are the coordinate axes.
TrainSet(c, s) ==
    [r \in 1..(2 * NumFeatures) |->
       [j \in 1..NumFeatures |->
          IF (r + 1) \div 2 = j
          THEN (IF r % 2 = 1 THEN c + s[j] ELSE c - s[j])
          ELSE c]]

TrainSets == { TrainSet(1, s) : s \in [1..NumFeatures -> 0..MaxSpread] }

\* coordinate values of query and retrieval rows; they reach outside the
\* training bounds on both sides
QVals == (0 - 1)..(MaxSpread + 1)

\* rows that leave the origin along one feature
TestRows ==
    { [j \in 1..NumFeatures |-> IF j = k THEN a ELSE 0] :
        k \in 1..NumFeatures, a \in QVals }

\* rows with the same value in every feature
DiagonalRows == { [j \in 1..NumFeatures |-> a] : a \in QVals }

-----------------------------------------------------------------------------
(* run (run.py:12-40) and train (sh.py:8-97) *)

InitLocals ==
    /\ code_length = None /\ pca = None /\ X = None /\ mn = None /\ R = None
    /\ max_mode = None /\ n_modes = None /\ modes = None /\ m = None
    /\ i = None /\ eig_val = None /\ ii = None
    /\ query_code = None /\ retrieval_code = None /\ checkpoint = None

\* one requested code length, all training sets, one query row off the origin
\* along one feature and one retrieval row on the diagonal
Init ==
    /\ train_data \in TrainSets
    /\ query_data \in { <<q>> : q \in TestRows }
    /\ retrieval_data \in { <<q>> : q \in DiagonalRows }
    /\ code_lengths \in { <<L>> : L \in 1..MaxL }
    /\ idx = 1 /\ saved = <<>> /\ pc = "loop"
    /\ InitLocals

\* run.py:28-29, sh.py:35-36  the next code length; PCA accepts it
Fit ==
    /\ pc = "loop" /\ idx <= Len(code_lengths)
    /\ ~PCARejects(train_data, code_lengths[idx])
    /\ code_length' = code_lengths[idx]
    /\ pca' = PCAFit(train_data, code_lengths[idx])
    /\ X' = PCATransform(pca', train_data)
    /\ pc' = "bounds"
    /\ UNCHANGED <<dataVars, idx, saved, mn, R, max_mode, n_modes, modes, m, i,
                   eig_val, ii, query_code, retrieval_code, checkpoint>>

\* faulty variant of FitRaises: the rejected code length is skipped and run goes on
FitRaises_Skip ==
    /\ pc = "loop" /\ idx <= Len(code_lengths)
    /\ PCARejects(train_data, code_lengths[idx])
    /\ idx' = idx + 1
    /\ UNCHANGED <<dataVars, saved, pc, locals>>

\* run.py:28-29, sh.py:35-36  PCA raises; nothing in train or run catches it
FitRaises ==
    /\ pc = "loop" /\ idx <= Len(code_lengths)
    /\ PCARejects(train_data, code_lengths[idx])
    /\ pc' = "raised"
    /\ UNCHANGED <<dataVars, idx, saved, locals>>

\* sh.py:39-44
FitUniform ==
    /\ pc = "bounds"
    /\ mn' = BoundsMn(X)
    /\ R' = BoundsR(X)
    /\ pc' = "modes"
    /\ UNCHANGED <<dataVars, idx, saved, code_length, pca, X, max_mode, n_modes,
                   modes, m, i, eig_val, ii, query_code, retrieval_code, checkpoint>>

\* sh.py:45-48
InitModes ==
    /\ pc = "modes"
    /\ max_mode' = MaxModeOf(code_length, R)
    /\ n_modes' = NModesOf(max_mode')
    /\ modes' = Ones(n_modes', code_length)
    /\ m' = 0
    /\ i' = 1
    /\ pc' = "enumerate"
    /\ UNCHANGED <<dataVars, idx, saved, code_length, pca, X, mn, R, eig_val, ii,
                   query_code, retrieval_code, checkpoint>>

\* sh.py:49-51  one iteration of the loop
Enumerate ==
    /\ pc = "enumerate" /\ i <= code_length
    /\ modes' = FillColumn(modes, m, i, max_mode)
    /\ m' = NextOffset(m, i, max_mode)
    /\ i' = i + 1
    /\ UNCHANGED <<dataVars, idx, saved, pc, code_length, pca, X, mn, R, max_mode,
                   n_modes, eig_val, ii, query_code, retrieval_code, checkpoint>>

\* sh.py:53-58  after the loop
SelectModes ==
    /\ pc = "enumerate" /\ i > code_length
    /\ eig_val' = EigVal(MinusOne(modes), R)
    /\ ii' \in { Head_(o, code_length + 1) :
                  o \in ArgSorts([p \in 1..n_modes |-> 0 - eig_val'[p]], 1..n_modes) }
    /\ modes' = SelectRows(MinusOne(modes), ii', code_length)
    /\ pc' = "query"
    /\ UNCHANGED <<dataVars, idx, saved, code_length, pca, X, mn, R, max_mode,
                   n_modes, m, i, query_code, retrieval_code, checkpoint>>

\* faulty variant of GenerateQueryCode: the bounds are refitted to the query data
GenerateQueryCode_Refit ==
    /\ pc = "query"
    /\ mn' = BoundsMn(PCATransform(pca, query_data))
    /\ R' = BoundsR(PCATransform(pca, query_data))
    /\ query_code' = generate_code(query_data, code_length, pca, mn', R', modes)
    /\ pc' = "retrieval"
    /\ UNCHANGED <<dataVars, idx, saved, code_length, pca, X, max_mode,
                   n_modes, modes, m, i, eig_val, ii, retrieval_code, checkpoint>>

\* sh.py:62
GenerateQueryCode ==
    /\ pc = "query"
    /\ query_code' = generate_code(query_data, code_length, pca, mn, R, modes)
    /\ pc' = "retrieval"
    /\ UNCHANGED <<dataVars, idx, saved, code_length, pca, X, mn, R, max_mode,
                   n_modes, modes, m, i, eig_val, ii, retrieval_code, checkpoint>>

\* sh.py:63
GenerateRetrievalCode ==
    /\ pc = "retrieval"
    /\ retrieval_code' = generate_code(retrieval_data, code_length, pca, mn, R, modes)
    /\ pc' = "evaluate"
    /\ UNCHANGED <<dataVars, idx, saved, code_length, pca, X, mn, R, max_mode,
                   n_modes, modes, m, i, eig_val, ii, query_code, checkpoint>>

\* sh.py:64-97  the checkpoint's codes (the labels and the metrics of
\* utils.evaluate are not modelled)
Evaluate ==
    /\ pc = "evaluate"
    /\ checkpoint' = [qB |-> query_code, rB |-> retrieval_code]
    /\ pc' = "save"
    /\ UNCHANGED <<dataVars, idx, saved, code_length, pca, X, mn, R, max_mode,
                   n_modes, modes, m, i, eig_val, ii, query_code, retrieval_code>>

\* run.py:39-40  torch.save, then the next iteration; train's locals are gone
Save ==
    /\ pc = "save"
    /\ saved' = Append(saved, [code_length |-> code_lengths[idx],
                               qB |-> checkpoint.qB, rB |-> checkpoint.rB])
    /\ idx' = idx + 1
    /\ pc' = "loop"
    /\ code_length' = None /\ pca' = None /\ X' = None /\ mn' = None /\ R' = None
    /\ max_mode' = None /\ n_modes' = None /\ modes' = None /\ m' = None
    /\ i' = None /\ eig_val' = None /\ ii' = None
    /\ query_code' = None /\ retrieval_code' = None /\ checkpoint' = None
    /\ UNCHANGED dataVars

\* run.py:28  the loop is exhausted
Finish ==
    /\ pc = "loop" /\ idx > Len(code_lengths)
    /\ pc' = "done"
    /\ UNCHANGED <<dataVars, idx, saved, locals>>

Next ==
    \/ Fit \/ FitRaises \/ FitUniform \/ InitModes \/ Enumerate \/ SelectModes
    \/ GenerateQueryCode \/ GenerateRetrievalCode \/ Evaluate \/ Save \/ Finish

Spec == Init /\ [][Next]_vars

\* run over one or two code lengths; the training sets include one of a
\* single row (fewer rows than features)
InitRun ==
    /\ train_data \in { TrainSet(1, [j \in 1..NumFeatures |-> a]) : a \in 0..MaxSpread }
                      \cup { << [j \in 1..NumFeatures |-> 0] >> }
    /\ query_data = << [j \in 1..NumFeatures |-> 0] >>
    /\ retrieval_data = << [j \in 1..NumFeatures |-> 1] >>
    /\ code_lengths \in { <<L>> : L \in 1..MaxL }
                        \cup { <<L1, L2>> : L1 \in 1..MaxL, L2 \in 1..MaxL }
    /\ idx = 1 /\ saved = <<>> /\ pc = "loop"
    /\ InitLocals

SpecRun == InitRun /\ [][Next]_vars

\* generate_code on directly drawn arguments: any bounds, mode tables with
\* several non-zero entries per row, a batch of two rows, and as second input
\* one row of the batch alone
CyclicTable(base) ==
    [k \in 1..Len(base) |-> [j \in 1..Len(base) |-> base[((k + j - 2) % Len(base)) + 1]]]

InitEncode ==
    /\ code_length = NumFeatures
    /\ pca = [mean |-> [j \in 1..NumFeatures |-> 1], n_components |-> NumFeatures]
    /\ mn = [j \in 1..NumFeatures |-> 0 - j]
    /\ R \in [1..NumFeatures -> 1..MaxR]
    /\ modes \in { CyclicTable(base) : base \in [1..NumFeatures -> 0..MaxModeIdx] }
    /\ query_data \in { <<a, [j \in 1..NumFeatures |-> a[j] + 1]>> : a \in TestRows }
    /\ retrieval_data \in { <<query_data[r]>> : r \in 1..2 }
    /\ train_data = None /\ code_lengths = <<NumFeatures>>
    /\ idx = 1 /\ saved = <<>> /\ pc = "query"
    /\ X = None /\ max_mode = None /\ n_modes = None /\ m = None /\ i = None
    /\ eig_val = None /\ ii = None
    /\ query_code = None /\ retrieval_code = None /\ checkpoint = None

NextEncode == GenerateQueryCode \/ GenerateRetrievalCode

SpecEncode == InitEncode /\ [][NextEncode]_vars

-----------------------------------------------------------------------------
(* Properties *)

\* the loop of sh.py:49-51 has finished and sh.py:53 has not yet run
LoopDone == pc = "enumerate" /\ i > code_length

\* modes holds the selected table (after sh.py:58)
TableBuilt == pc \in {"query", "retrieval", "evaluate", "save"}

IsZeroRow(row) == \A j \in 1..Len(row) : row[j] = 0

NonZeroDims(row) == {j \in 1..Len(row) : row[j] # 0}

\* the widest dimensions
WidestDims == {j \in 1..Len(R) : \A j2 \in 1..Len(R) : R[j2] <= R[j]}

\* sign of cos(pi * mode * x / r), from the position of mode * x in the
\* period 2 * r
SignCos(mode, x, r) ==
    LET v == (mode * x) % (2 * r)
    IN  IF 2 * v = r \/ 2 * v = 3 * r THEN 0
        ELSE IF 2 * v < r \/ 2 * v > 3 * r THEN 1 ELSE 0 - 1

\* C1: with R > 0 in every dimension, at least code_length + 1 candidates are
\* enumerated, the candidate sorted first (the one dropped) has eigenvalue 0,
\* no all-zero row is kept, and the table has exactly code_length rows of
\* length code_length.
C1_TableShape ==
    /\ pc = "enumerate" => n_modes >= code_length + 1
    /\ TableBuilt =>
         /\ \A j \in 1..code_length : R[j] > 0
         /\ eig_val[ii[1]] = 0
         /\ \A p \in 1..n_modes : p # ii[1] => eig_val[p] # 0
         /\ Len(modes) = code_length
         /\ \A k \in 1..Len(modes) :
              Len(modes[k]) = code_length /\ ~IsZeroRow(modes[k])

\* C1 witness: a table built from exactly code_length + 1 candidates, the
\* fewest possible, for a code of at least two bits.
C1_Witness ==
    TableBuilt /\ code_length >= 2 /\ n_modes = code_length + 1
    /\ Len(modes) = code_length

\* C2: the selection (sh.py:53-58) leaves the rows in ascending order of
\* eigenvalue magnitude, and every non-constant candidate it leaves out has a
\* magnitude at least that of every row it keeps.
C2_LowestAscending ==
    [][ (LoopDone /\ pc' = "query") =>
          /\ \A k \in 1..(Len(modes') - 1) :
               Magnitude(modes'[k], R) <= Magnitude(modes'[k + 1], R)
          /\ \A p \in 1..Len(modes) :
               LET c == [j \in 1..code_length |-> modes[p][j] - 1]
               IN  (~IsZeroRow(c) /\ \A k \in 1..Len(modes') : modes'[k] # c)
                   => \A k \in 1..Len(modes') :
                        Magnitude(modes'[k], R) <= Magnitude(c, R) ]_vars

\* C2 witness: a table of rows of different magnitudes whose last row ties
\* in magnitude with a candidate that was left out.
C2_Witness ==
    /\ TableBuilt /\ code_length >= 2 /\ n_modes >= code_length + 2
    /\ \E p \in 1..n_modes :
         /\ \A k \in 1..Len(ii) : ii[k] # p
         /\ eig_val[p] = eig_val[ii[code_length + 1]]
    /\ Magnitude(modes[1], R) < Magnitude(modes[code_length], R)

C4_Binary ==
    pc = "evaluate" =>
       /\ \A r \in 1..Len(query_code) : \A k \in 1..code_length :
            query_code[r][k] \in {0 - 1, 1}
       /\ \A r \in 1..Len(retrieval_code) : \A k \in 1..code_length :
            retrieval_code[r][k] \in {0 - 1, 1}
       /\ \A r \in 1..Len(query_data) : \A r2 \in 1..Len(retrieval_data) :
            query_data[r] = retrieval_data[r2] => query_code[r] = retrieval_code[r2]

\* C5: row r of the code of a batch equals the code of row r encoded alone.
C5_RowIndependent ==
    pc = "evaluate" =>
       \A r \in 1..Len(query_data) :
          retrieval_data = <<query_data[r]>> => retrieval_code = <<query_code[r]>>

\* C5 witness: the second row of a batch was encoded alone, and the two rows
\* of the batch have different codes.
C5_Witness ==
    /\ pc = "evaluate" /\ Len(query_data) = 2
    /\ retrieval_data = <<query_data[2]>>
    /\ query_code[1] # query_code[2]
    /\ retrieval_code = <<query_code[2]>>

\* C6: from the point where they are computed until train returns, mn, R and
\* the projector do not change and equal what the training data alone give;
\* the mode table does not change once selected.
C6_BoundsFrozen ==
    /\ [](pc \in {"modes", "enumerate", "query", "retrieval", "evaluate", "save"} =>
            /\ pca = PCAFit(train_data, code_length)
            /\ mn = BoundsMn(PCATransform(PCAFit(train_data, code_length), train_data))
            /\ R = BoundsR(PCATransform(PCAFit(train_data, code_length), train_data)))
    /\ [][ (pc \in {"modes", "enumerate", "query", "retrieval", "evaluate"}) =>
             (mn' = mn /\ R' = R /\ pca' = pca) ]_vars
    /\ [][ (pc \in {"query", "retrieval", "evaluate"}) => (modes' = modes) ]_vars

\* C6 witness: both codes were generated, from a query row below the training
\* bounds and a retrieval row above them.
C6_Witness ==
    /\ pc = "evaluate"
    /\ \E j \in 1..code_length : Shifted(query_data, pca, mn)[1][j] < 0
    /\ \E j \in 1..code_length : Shifted(retrieval_data, pca, mn)[1][j] > R[j]

\* the requested code length exceeds the number of features or of training rows
TooLong == code_lengths[idx] > Len(train_data[1]) \/ code_lengths[idx] > Len(train_data)

\* C7: a code length above the feature dimensionality or above the number
\* of training rows makes train fail before anything is computed; the error
\* ends run, and no checkpoint is written for that code length or after it.
C7_FailsFast ==
    /\ [][ (pc = "loop" /\ idx <= Len(code_lengths) /\ TooLong) =>
             (pc' = "raised" /\ saved' = saved /\ modes' = None
              /\ query_code' = None /\ retrieval_code' = None) ]_vars
    /\ [][ (pc = "raised") => (vars' = vars) ]_vars
    /\ [](pc = "raised" => Len(saved) = idx - 1)

\* C7 witness: the second code length was rejected for exceeding the number
\* of training rows (not of features), after the first one was saved.
C7_Witness ==
    /\ pc = "raised" /\ idx = 2 /\ Len(saved) = 1
    /\ code_lengths[idx] > Len(train_data)
    /\ code_lengths[idx] <= Len(train_data[1])

\* C8 (as claimed): all entries of the table are non-negative and the first
\* row's magnitude is strictly less than that of every later row.
C8_StrictFirst ==
    TableBuilt =>
       /\ \A k \in 1..Len(modes) : \A j \in 1..code_length : modes[k][j] \in Nat
       /\ \A k \in 2..Len(modes) :
            Magnitude(modes[1], R) < Magnitude(modes[k], R)

\* C8 (amended): all entries of the table are non-negative, the first row's
\* magnitude is at most that of every later row, and it equals the second
\* row's exactly when two dimensions share the largest range.
C8_WeakFirst ==
    TableBuilt =>
       /\ \A k \in 1..Len(modes) : \A j \in 1..code_length : modes[k][j] \in Nat
       /\ \A k \in 2..Len(modes) :
            Magnitude(modes[1], R) <= Magnitude(modes[k], R)
       /\ code_length >= 2 =>
            ((Magnitude(modes[1], R) = Magnitude(modes[2], R))
               <=> Cardinality(WidestDims) >= 2)

\* C8 witness: a table of at least two rows over ranges with a single widest
\* dimension, which is not the first.
C8_Witness ==
    /\ TableBuilt /\ code_length >= 2
    /\ Cardinality(WidestDims) = 1 /\ 1 \notin WidestDims
    /\ Magnitude(modes[1], R) < Magnitude(modes[2], R)

\* C9: when the loop ends the candidate matrix has sum(max_mode) - L + 1
\* rows and m = n_modes - 1; after the subtraction of 1, row 0 is all zero,
\* every other row has exactly one non-zero entry, and each mode index
\* 1 .. max_mode[j] - 1 of each dimension j is in exactly one row.
C9_Candidates ==
    LoopDone =>
       LET c == MinusOne(modes)
       IN  /\ \A j \in 1..code_length :
                max_mode[j] = Ceil((code_length + 1) * R[j], MaxSeq(R))
           /\ n_modes = SumSeq(max_mode) - code_length + 1
           /\ Len(c) = n_modes
           /\ m = n_modes - 1
           /\ IsZeroRow(c[1])
           /\ \A p \in 2..n_modes : Cardinality(NonZeroDims(c[p])) = 1
           /\ \A j \in 1..code_length :
                /\ \A v \in 1..(max_mode[j] - 1) :
                     Cardinality({p \in 1..n_modes : c[p][j] = v}) = 1
                /\ \A p \in 1..n_modes : c[p][j] \in 0..(max_mode[j] - 1)

\* C9 witness: the loop has ended with non-empty blocks in two dimensions of
\* different sizes.
C9_Witness ==
    /\ LoopDone
    /\ \E j1 \in 1..code_length : \E j2 \in 1..code_length :
         max_mode[j1] > max_mode[j2] /\ max_mode[j2] >= 2

\* the mode index and the dimension of a row with a single non-zero entry
DimOf(row) == CHOOSE j \in 1..Len(row) : row[j] # 0

\* C10: every row k of the table has one non-zero entry m_k in 1..L at a
\* dimension d_k; bit k of a code is the sign of
\* cos(m_k * pi * (v[d_k] - mn[d_k]) / R[d_k]), so two rows with the same
\* projected coordinate d_k have the same bit k.
C10_SingleCoordinate ==
    pc = "evaluate" =>
       LET q == Shifted(query_data, pca, mn)
           t == Shifted(retrieval_data, pca, mn)
       IN  \A k \in 1..code_length :
              /\ Cardinality(NonZeroDims(modes[k])) = 1
              /\ LET d == DimOf(modes[k])
                 IN  /\ modes[k][d] \in 1..code_length
                     /\ \A r \in 1..Len(q) :
                          query_code[r][k] = SignCos(modes[k][d], q[r][d], R[d])
                     /\ \A r \in 1..Len(t) :
                          retrieval_code[r][k] = SignCos(modes[k][d], t[r][d], R[d])
                     /\ \A r \in 1..Len(q) : \A r2 \in 1..Len(t) :
                          q[r][d] = t[r2][d] => query_code[r][k] = retrieval_code[r2][k]

\* C10 witness: a bit of mode index 2 or more on which the query row and the
\* retrieval row agree in the bit's coordinate and differ in another one.
C10_Witness ==
    /\ pc = "evaluate" /\ code_length >= 2
    /\ \E k \in 1..code_length :
         /\ Cardinality(NonZeroDims(modes[k])) = 1
         /\ modes[k][DimOf(modes[k])] >= 2
         /\ Shifted(query_data, pca, mn)[1][DimOf(modes[k])]
              = Shifted(retrieval_data, pca, mn)[1][DimOf(modes[k])]
         /\ Shifted(query_data, pca, mn)[1] # Shifted(retrieval_data, pca, mn)[1]
         /\ query_code[1][k] # 1

=============================================================================
